---- MODULE Spec2Model ----
(***************************************************************************)
(* Semantic Entropy File System: the Worker (orchestrator) of              *)
(* sefs/app/main.py with its Record Store (database.py), Placement Engine  *)
(* (folder_manager.py), Change Watcher (file_monitor.py), Grouping Engine  *)
(* (clustering_engine.py) and Naming Oracle (ai_namer.py).                 *)
(*                                                                         *)
(* A path is a record [dir, name]: dir is <<>> for the watched root and    *)
(* <<label, type>> for root/label/type; name is <<base, ext>>.             *)
(* A file's bytes are a content id; hashing, text extraction, embedding    *)
(* and sampling are injective tags over the content id.                    *)
(***************************************************************************)
EXTENDS Integers, Sequences, FiniteSets, TLC

\* ------------------------------------------------------------------ bounds
MaxExt == 1          \* external disk changes (create, edit, delete, rename-in)
MaxClock == 4        \* store-writing steps of the Worker
MaxQueue == 1        \* an external change finds fewer than MaxQueue events undelivered or queued

\* --------------------------------------------------------------- universe
Root == <<>>
Names == {<<"a", ".txt">>, <<"b", ".PDF">>}
Contents == {"short", "t1", "t2"}
TmpName == <<"dl", ".tmp">>            \* source of a rename into the root
AiNames == {"Finance"}
Replies == AiNames \cup {"FAIL"}       \* what the naming service yields
ClusterIds == {-1, 0, 1}
Lockable == {<<"a", ".txt">>}          \* the files that may resist a rename
Holdable == {<<"a", ".txt">>}          \* the placed files that may resist removal

Path(dir, name) == [dir |-> dir, name |-> name]

\* str.lower() on the extensions of the universe
Lower(ext) ==
  CASE ext = ".TXT" -> ".txt"
    [] ext = ".PDF" -> ".pdf"
    [] ext = ".XYZ" -> ".xyz"
    [] OTHER -> ext

\* os.path.splitext(path)[1].lower()
ExtOf(path) == Lower(path.name[2])

\* ext.lstrip('.').upper() + "_Files" on the extensions of the universe
UpperFiles(ext) ==
  CASE ext = ".tmp" -> "TMP_Files"
    [] ext = ".csv" -> "CSV_Files"
    [] ext = ".xyz" -> "XYZ_Files"
    [] OTHER -> "X_Files"

TypeFolderName(extension) ==
  IF extension = "" THEN "Misc_Files"
  ELSE LET ext == Lower(extension) IN
    CASE ext = ".pdf" -> "PDF_Documents"
      [] ext = ".txt" -> "Text_Files"
      [] ext \in {".doc", ".docx"} -> "Word_Documents"
      [] ext \in {".md", ".log"} -> "Documentation"
      [] ext \in {".jpg", ".jpeg", ".png", ".gif", ".bmp"} -> "Image_Files"
      [] ext \in {".mp3", ".wav", ".flac"} -> "Audio_Files"
      [] ext \in {".mp4", ".mkv", ".avi", ".mov"} -> "Video_Files"
      [] ext \in {".py", ".js", ".html", ".css", ".java", ".cpp", ".c", ".h",
                  ".json", ".xml"} -> "Source_Code"
      [] ext \in {".zip", ".rar", ".7z", ".tar", ".gz"} -> "Archives"
      [] OTHER -> UpperFiles(ext)

\* f"Semantic_Cluster_{cluster_id}"
SemanticCluster(cid) ==
  CASE cid = -1 -> "Semantic_Cluster_-1"
    [] cid = 0 -> "Semantic_Cluster_0"
    [] cid = 1 -> "Semantic_Cluster_1"
    [] OTHER -> "Semantic_Cluster_n"

\* ------------------------------------------------------------ config.py
\* Config.EXTENSIONS
ConfigExtensions == {".txt", ".pdf", ".md", ".log", ".csv", ".docx", ".doc"}

\* ------------------------------------------------- embedding_engine.py
ComputeFileHash(c) == <<"sha256", c>>
TextLen(c) == IF c = "short" THEN 5 ELSE 12     \* len(text.strip())
MinTextLen == 10
TextExts == {".txt", ".md", ".log", ".csv", ".py", ".js", ".html", ".pdf", ".docx", ".doc"}
\* the text extract_text returns for a file: its content id, "" for an
\* extension it does not read
ExtractText(path, c) == IF ExtOf(path) \in TextExts THEN c ELSE ""
GenerateEmbedding(text) == <<"emb", text>>
ContentSample(text) == <<"sample", text>>       \* text[:500]

\* ------------------------------------------------------- database.py
\* the rows of table files in rowid order
Find(d, path) ==
  IF \E i \in 1..Len(d) : d[i].path = path
  THEN CHOOSE i \in 1..Len(d) : d[i].path = path
  ELSE 0

HasRecord(d, path) == Find(d, path) # 0

UpsertFile(d, path, hash, emb, now, sample) ==
  LET i == Find(d, path) IN
  IF i = 0
  THEN Append(d, [path |-> path, hash |-> hash, emb |-> emb, cluster |-> -1,
                  mtime |-> now, sample |-> sample])
  ELSE [d EXCEPT ![i] = [@ EXCEPT !.hash = hash, !.emb = emb,
                                  !.mtime = now, !.sample = sample]]

UpdateCluster(d, path, cid) ==
  LET i == Find(d, path) IN
  IF i = 0 THEN d ELSE [d EXCEPT ![i].cluster = cid]

RemoveFile(d, path) == SelectSeq(d, LAMBDA r : r.path # path)

\* os.path.normpath on a path string given as its segments between
\* separators: empty segments (doubled or trailing separators) and "." are
\* dropped, ".." takes the segment before it away
RECURSIVE NormSegs(_, _)
NormSegs(s, acc) ==
  IF s = <<>> THEN acc
  ELSE LET h == Head(s) IN
       NormSegs(Tail(s),
                IF h \in {"", "."} THEN acc
                ELSE IF h = ".."
                  THEN IF acc # <<>> /\ acc[Len(acc)] # ".."
                       THEN SubSeq(acc, 1, Len(acc) - 1)
                       ELSE Append(acc, "..")
                ELSE Append(acc, h))

\* the key operations without os.path.normpath
NormpathNone(s) == s

Normpath(s) == IF NormSegs(s, <<>>) = <<>> THEN <<".">> ELSE NormSegs(s, <<>>)

\* DatabaseManager.upsert_file / get_file / update_cluster / remove_file /
\* clear_all as called with a path string
DbUpsertFile(d, s, hash, emb, now, sample) ==
  UpsertFile(d, Normpath(s), hash, emb, now, sample)

DbGetFile(d, s) ==
  LET hit == SelectSeq(d, LAMBDA r : r.path = Normpath(s))
  IN IF hit = <<>> THEN <<>> ELSE << Head(hit) >>

DbUpdateCluster(d, s, cid) == UpdateCluster(d, Normpath(s), cid)

DbRemoveFile(d, s) == RemoveFile(d, Normpath(s))

DbClearAll(d) == <<>>

\* ------------------------------------------------------- ai_namer.py
HasSlash(c) == c = "p/q"
\* isinstance(sample, str) and len(sample) > 10, and no path separator
\* unless longer than 100
ValidSample(s) ==
  /\ TextLen(s[2]) > 10
  /\ (~HasSlash(s[2]) \/ TextLen(s[2]) > 100)

Take(s, n) == SubSeq(s, 1, IF Len(s) < n THEN Len(s) ELSE n)

MaxRetries == 3
RetryDelay == 5

\* what one request to the naming service can yield: a name that passes
\* _sanitize_name and the length check, an empty response, a name that does
\* not pass, a rate-limit error ("429" / ResourceExhausted), another error
Outcomes == AiNames \cup {"EMPTY", "BAD", "RATE", "FAIL"}

\* the retry loop with every error retried (no break at lines 119-121)
RECURSIVE AttemptsRetryAll(_, _, _, _, _)
AttemptsRetryAll(replies, cid, k, delay, waits) ==
  IF k > MaxRetries
  THEN [name |-> SemanticCluster(cid), store |-> FALSE, reqs |-> MaxRetries, waits |-> waits]
  ELSE LET r == replies[k] IN
    IF r \in AiNames THEN [name |-> r, store |-> TRUE, reqs |-> k, waits |-> waits]
    ELSE IF r \in {"EMPTY", "BAD"}
      THEN [name |-> SemanticCluster(cid), store |-> FALSE, reqs |-> k, waits |-> waits]
    ELSE AttemptsRetryAll(replies, cid, k + 1, delay * 2, Append(waits, delay))

\* the retry loop with the fallback name stored like a name of the service
RECURSIVE AttemptsStoreAll(_, _, _, _, _)
AttemptsStoreAll(replies, cid, k, delay, waits) ==
  IF k > MaxRetries
  THEN [name |-> SemanticCluster(cid), store |-> TRUE, reqs |-> MaxRetries, waits |-> waits]
  ELSE LET r == replies[k] IN
    IF r \in AiNames THEN [name |-> r, store |-> TRUE, reqs |-> k, waits |-> waits]
    ELSE IF r \in {"EMPTY", "BAD"}
      THEN [name |-> SemanticCluster(cid), store |-> TRUE, reqs |-> k, waits |-> waits]
    ELSE IF r = "RATE"
      THEN AttemptsStoreAll(replies, cid, k + 1, delay * 2, Append(waits, delay))
    ELSE [name |-> SemanticCluster(cid), store |-> TRUE, reqs |-> k, waits |-> waits]

\* the loop of lines 75-121 from attempt k on: replies[k] is what request k
\* yields, delay the current retry_delay, waits the sleeps made so far
RECURSIVE Attempts(_, _, _, _, _)
Attempts(replies, cid, k, delay, waits) ==
  IF k > MaxRetries
  THEN [name |-> SemanticCluster(cid), store |-> FALSE, reqs |-> MaxRetries, waits |-> waits]
  ELSE LET r == replies[k] IN
    IF r \in AiNames THEN [name |-> r, store |-> TRUE, reqs |-> k, waits |-> waits]
    ELSE IF r \in {"EMPTY", "BAD"}
      THEN [name |-> SemanticCluster(cid), store |-> FALSE, reqs |-> k, waits |-> waits]
    ELSE IF r = "RATE"
      THEN Attempts(replies, cid, k + 1, delay * 2, Append(waits, delay))
    ELSE [name |-> SemanticCluster(cid), store |-> FALSE, reqs |-> k, waits |-> waits]

\* AINamer.generate_folder_name; replies[k] is what the naming service
\* yields for the k-th request of this call if it is made
GenerateFolderName(cch, en, samples, cid, replies) ==
  LET fallback == [name |-> SemanticCluster(cid), cache |-> cch, reqs |-> 0, waits |-> <<>>]
      valid == SelectSeq(Take(samples, 5), ValidSample)
  IN
  IF ~en THEN fallback
  ELSE IF cid = -1 THEN [fallback EXCEPT !.name = "Miscellaneous_Files"]
  ELSE IF samples = <<>> THEN fallback
  ELSE IF valid = <<>> THEN fallback
  ELSE IF valid \in DOMAIN cch THEN [fallback EXCEPT !.name = cch[valid]]
  ELSE LET a == Attempts(replies, cid, 1, RetryDelay, <<>>) IN
       [name |-> a.name,
        cache |-> IF a.store THEN (valid :> a.name) @@ cch ELSE cch,
        reqs |-> a.reqs, waits |-> a.waits]

\* what one call generate_folder_name(samples, cid) with result g was given
\* and returned
NameCall(cch, en, samples, cid, replies, g) ==
  [cid |-> cid, samples |-> samples, en |-> en,
   replies |-> SubSeq(replies, 1, g.reqs),      \* the answers received
   cached |-> SelectSeq(Take(samples, 5), ValidSample) \in DOMAIN cch,
   name |-> g.name, reqs |-> g.reqs, waits |-> g.waits]

\* ------------------------------------------------ clustering_engine.py
\* ClusteringEngine.perform_clustering; pick is the labelling UMAP + HDBSCAN
\* yield for three or more vectors
PerformClustering(embs, pick) ==
  IF Len(embs) = 0 THEN <<>>
  ELSE IF Len(embs) < 3 THEN [i \in 1..Len(embs) |-> 0]
  ELSE [i \in 1..Len(embs) |-> pick[i]]

\* ---------------------------------------------------- folder_manager.py
\* the OS notifications of a rename src -> dest, as the platform reports it
RenameNotes(plat, src, dest, sys) ==
  IF plat = "moved"
  THEN << [kind |-> "moved", path |-> dest, sys |-> sys] >>
  ELSE << [kind |-> "deleted", path |-> src, sys |-> sys],
          [kind |-> "created", path |-> dest, sys |-> sys] >>

\* the older layout root/type_folder/folder_name/basename
DestinationTypeFirst(path, label) == Path(<<TypeFolderName(ExtOf(path)), label>>, path.name)

\* destination_path of move_file: root/folder_name/type_folder/basename
Destination(path, label) == Path(<<label, TypeFolderName(ExtOf(path))>>, path.name)

\* f"{base}_{timestamp}{ext}": the name move_file falls back to when the file
\* in the way cannot be removed (the value of the timestamp is left out)
Stamp(base) ==
  CASE base = "a" -> "a_ts"
    [] base = "b" -> "b_ts"
    [] base = "c" -> "c_ts"
    [] OTHER -> "x_ts"

Stamped(name) == <<Stamp(name[1]), name[2]>>

\* lines 84-101 of move_file: the file in the way is removed, or the
\* destination renamed with a timestamp when it cannot be; then shutil.move,
\* which raises for a name in fail and for a source that is gone
Relocate(fs, ds1, path, dest, fail, stuck, plat) ==
  LET collide == dest \in DOMAIN fs
      removed == collide /\ dest.name \notin stuck
      fs1 == IF removed THEN [q \in DOMAIN fs \ {dest} |-> fs[q]] ELSE fs
      n1 == IF removed
            THEN << [kind |-> "deleted", path |-> dest, sys |-> TRUE] >> ELSE <<>>
      to == IF collide /\ ~removed THEN Path(dest.dir, Stamped(dest.name)) ELSE dest
  IN
  IF path.name \in fail \/ path \notin DOMAIN fs1
  THEN [files |-> fs1, dirs |-> ds1, ok |-> FALSE, path |-> path, notes |-> n1]
  ELSE [files |-> [q \in (DOMAIN fs1 \ {path}) \cup {to} |->
                     IF q = to THEN fs[path] ELSE fs1[q]],
        dirs |-> ds1, ok |-> TRUE, path |-> to,
        notes |-> n1 \o RenameNotes(plat, path, to, TRUE)]

\* move_file without the "already there" check of lines 80-82: the file is
\* removed as if it were a colliding file, and the rename then finds no source
MoveFileNoSameCheck(fs, ds, path, label, fail, stuck, plat) ==
  LET dest == Destination(path, label) IN
  IF path \notin DOMAIN fs
  THEN [files |-> fs, dirs |-> ds, ok |-> FALSE, path |-> path, notes |-> <<>>]
  ELSE Relocate(fs, ds \cup {dest.dir}, path, dest, fail, stuck, plat)

\* move_file making the target directory before it looks for the file
MoveFileDirsFirst(fs, ds, path, label, fail, stuck, plat) ==
  LET dest == Destination(path, label)
      ds1 == ds \cup {dest.dir}
  IN
  IF path \notin DOMAIN fs
  THEN [files |-> fs, dirs |-> ds1, ok |-> FALSE, path |-> path, notes |-> <<>>]
  ELSE IF path = dest
  THEN [files |-> fs, dirs |-> ds1, ok |-> TRUE, path |-> path, notes |-> <<>>]
  ELSE Relocate(fs, ds1, path, dest, fail, stuck, plat)

\* FolderManager.move_file(file_path, folder_name, root_path) on disk
\* (fs, ds); fail holds the names for which shutil.move raises, stuck the
\* names for which os.remove of the file in the way raises; the result is
\* the new disk, the returned path (ok = FALSE for None) and the OS
\* notifications of the changes made
MoveFile(fs, ds, path, label, fail, stuck, plat) ==
  LET dest == Destination(path, label)
      ds1 == ds \cup {dest.dir}
  IN
  IF path \notin DOMAIN fs
  THEN [files |-> fs, dirs |-> ds, ok |-> FALSE, path |-> path, notes |-> <<>>]
  ELSE IF path = dest
  THEN [files |-> fs, dirs |-> ds1, ok |-> TRUE, path |-> path, notes |-> <<>>]
  ELSE Relocate(fs, ds1, path, dest, fail, stuck, plat)

\* what one call move_file(path, label, root) on disk (fs, ds) with result mv
\* was given, returned and did
MoveCall(fs, ds, path, label, mv) ==
  [src |-> path, label |-> label,
   existed |-> path \in DOMAIN fs,
   collided |-> Destination(path, label) \in DOMAIN fs /\ Destination(path, label) # path,
   content |-> IF path \in DOMAIN fs THEN fs[path] ELSE "",
   ok |-> mv.ok, ret |-> mv.path,
   wrote |-> mv.files # fs \/ mv.dirs # ds]

\* --------------------------------------------------------- main.py
\* process_file without the hash check of lines 161-163
ProcessFileNoHashCheck(d, fs, path, now) ==
  LET out(res, ex, nd) == [db |-> nd, res |-> res, extracted |-> ex] IN
  IF path \notin DOMAIN fs THEN out("missing", FALSE, d)
  ELSE LET c == fs[path]
           h == ComputeFileHash(c)
           text == ExtractText(path, c)
       IN
       IF text # "" /\ TextLen(text) > MinTextLen
         THEN out("stored", TRUE,
                  UpsertFile(d, path, h, GenerateEmbedding(text), now, ContentSample(text)))
       ELSE out("notext", TRUE, d)

\* Worker.process_file
ProcessFile(d, fs, path, now) ==
  LET out(res, ex, nd) == [db |-> nd, res |-> res, extracted |-> ex] IN
  IF path \notin DOMAIN fs THEN out("missing", FALSE, d)
  ELSE LET c == fs[path]
           h == ComputeFileHash(c)
           i == Find(d, path)
           text == ExtractText(path, c)
       IN
       IF i # 0 /\ d[i].hash = h THEN out("hash_match", FALSE, d)
       ELSE IF text # "" /\ TextLen(text) > MinTextLen
         THEN out("stored", TRUE,
                  UpsertFile(d, path, h, GenerateEmbedding(text), now, ContentSample(text)))
       ELSE out("notext", TRUE, d)

\* Worker._cleanup_missing_files
CleanupMissingFiles(d, fs) == SelectSeq(d, LAMBDA r : r.path \in DOMAIN fs)

\* row[3] and len(row[3]) > 2
HasEmbedding(r) == r.emb # <<>>

\* the keys of type_groups in insertion order
RECURSIVE ExtSeq(_, _)
ExtSeq(rows, acc) ==
  IF rows = <<>> THEN acc
  ELSE LET e == ExtOf(Head(rows).path) IN
       ExtSeq(Tail(rows),
              IF HasEmbedding(Head(rows)) /\ \A k \in 1..Len(acc) : acc[k] # e
              THEN Append(acc, e) ELSE acc)

\* iteration order of set(labels): the non-negative ids ascending, then -1
ClusterOrder(labels) ==
  LET used == {labels[i] : i \in 1..Len(labels)}
      nn == SelectSeq(<<0, 1>>, LAMBDA c : c \in used)
  IN IF -1 \in used THEN Append(nn, -1) ELSE nn

\* content_samples of one cluster (main.py lines 250-255)
RECURSIVE SamplesOf(_, _, _, _)
SamplesOf(rowsT, labels, cid, i) ==
  IF i > Len(rowsT) THEN <<>>
  ELSE (IF labels[i] = cid THEN <<rowsT[i].sample>> ELSE <<>>)
       \o SamplesOf(rowsT, labels, cid, i + 1)

\* the loop of main.py lines 248-262 over the clusters of one type
RECURSIVE NameClusters(_, _, _, _, _, _)
NameClusters(acc, order, rowsT, labels, en, orc) ==
  IF order = <<>> THEN acc
  ELSE LET cid == Head(order)
           samples == Take(SamplesOf(rowsT, labels, cid, 1), 5)
           replies == [k \in 1..MaxRetries |-> orc[cid]]
           g == GenerateFolderName(acc.cache, en, samples, cid, replies)
       IN NameClusters([acc EXCEPT !.cache = g.cache,
                                   !.ncalls = Append(@, NameCall(acc.cache, en, samples,
                                                                 cid, replies, g)),
                                   !.cnames = (cid :> g.name) @@ @,
                                   !.names = @ + 1,
                                   !.reqs = @ + g.reqs],
                       Tail(order), rowsT, labels, en, orc)

\* one iteration of the loop of main.py lines 265-297
PlaceRow(acc, row, cid, folder, env) ==
  LET d1 == UpdateCluster(acc.db, row.path, cid)
      mv == MoveFile(acc.files, acc.dirs, row.path, folder, env.fail, env.stuck, env.plat)
      moved == mv.ok /\ mv.path # row.path
      d2 == IF moved
            THEN UpdateCluster(
                   UpsertFile(RemoveFile(d1, row.path), mv.path, row.hash, row.emb,
                              env.now, row.sample),
                   mv.path, cid)
            ELSE d1
  IN [acc EXCEPT !.db = d2, !.files = mv.files, !.dirs = mv.dirs,
                 !.notes = @ \o mv.notes,
                 !.data = Append(@, [path |-> IF moved THEN mv.path ELSE row.path,
                                     cluster |-> cid]),
                 !.calls = Append(@,
                     MoveCall(acc.files, acc.dirs, row.path, folder, mv)
                     @@ [before |-> row, cid |-> cid,
                         after |-> SelectSeq(d2, LAMBDA r : r.path = row.path)])]

RECURSIVE PlaceRows(_, _, _, _, _)
PlaceRows(acc, rowsT, labels, i, env) ==
  IF i > Len(rowsT) THEN acc
  ELSE PlaceRows(PlaceRow(acc, rowsT[i], labels[i], acc.cnames[labels[i]], env),
                 rowsT, labels, i + 1, env)

\* ClusteringEngine.reduce_dimensions: one point per vector, the origin for
\* a single vector, the places UMAP or PCA yield otherwise
ReduceDimensions(embs) ==
  [i \in 1..Len(embs) |-> IF Len(embs) < 2 THEN "origin" ELSE "placed"]

\* type_groups without its keys: every record with a fingerprint in one list
RowsOfTypeAll(rows, ext) == SelectSeq(rows, LAMBDA r : HasEmbedding(r))

\* type_groups[ext] (main.py lines 212-222): the records with a fingerprint
\* whose lower-cased extension is ext, in snapshot order
RowsOfType(rows, ext) ==
  SelectSeq(rows, LAMBDA r : HasEmbedding(r) /\ ExtOf(r.path) = ext)

\* the body of the loop of main.py lines 232-307 for one extension
ClusterType(acc, rows, ext, env) ==
  LET rowsT == RowsOfType(rows, ext)
      embs == [i \in 1..Len(rowsT) |-> rowsT[i].emb]
      labels == PerformClustering(embs, env.pick)
      named == NameClusters([acc EXCEPT !.cnames = <<>>, !.groups = @ + 1],
                            ClusterOrder(labels), rowsT, labels, env.en, env.orc)
      placed == PlaceRows(named, rowsT, labels, 1, env)
  IN [placed EXCEPT !.coords = @ \o ReduceDimensions(embs),
                    !.gcalls = Append(@, [n |-> Len(embs), labels |-> labels,
                                          ext |-> ext,
                                          paths |-> [i \in 1..Len(rowsT) |-> rowsT[i].path],
                                          named |-> DOMAIN named.cnames,
                                          from |-> Len(acc.ncalls)])]

RECURSIVE ClusterTypes(_, _, _, _)
ClusterTypes(acc, rows, exts, env) ==
  IF exts = <<>> THEN acc
  ELSE ClusterTypes(ClusterType(acc, rows, Head(exts), env), rows, Tail(exts), env)

\* recluster_and_update returning at once, as for an empty store
ReclusterAndUpdateSkipped(d, fs, ds, cch, env) ==
  [db |-> d, files |-> fs, dirs |-> ds, cache |-> cch, notes |-> <<>>,
   calls |-> <<>>, ncalls |-> <<>>, cnames |-> <<>>, groups |-> 0, names |-> 0,
   reqs |-> 0, gcalls |-> <<>>, data |-> <<>>, coords |-> <<>>, emits |-> <<>>,
   rows |-> <<>>]

\* Worker.recluster_and_update on store d, disk (fs, ds) and naming cache
\* cch; env holds the step's inputs: pick (grouping), orc (naming service),
\* fail (moves that raise), now, plat, en
ReclusterAndUpdate(d, fs, ds, cch, env) ==
  LET acc0 == [db |-> d, files |-> fs, dirs |-> ds, cache |-> cch, notes |-> <<>>,
               calls |-> <<>>, ncalls |-> <<>>, cnames |-> <<>>, groups |-> 0, names |-> 0,
   reqs |-> 0, gcalls |-> <<>>, data |-> <<>>, coords |-> <<>>, emits |-> <<>>,
   rows |-> <<>>]
      exts == ExtSeq(d, <<>>)
      done == ClusterTypes(acc0, d, exts, env)
  IN IF d = <<>> \/ exts = <<>> THEN acc0
     ELSE [done EXCEPT !.emits = << [data |-> done.data, coords |-> done.coords] >>,
                       !.rows = d]

VARIABLES
  files,      \* disk: path -> content id of every file under the root
  dirs,       \* disk: the <<label, type>> directories that exist
  pending,    \* OS notifications the observer thread has not yet dispatched
  seen,       \* SEFSEventHandler.last_events: the (kind, path) keys recorded
  queue,      \* Worker.event_queue
  db,         \* DatabaseManager: rows of table files
  cache,      \* AINamer.cache: sample tuple -> name
  pc,         \* Worker: "idle", "scanning", "watching", "stopped", "crashed"
  clock,      \* logical datetime.now(): advances with every store-writing step
  extOps,     \* number of external disk changes so far
  platform,   \* how the OS reports a rename: "moved" or "pair"
  enabled,    \* AINamer.enabled
  locked,     \* the names of the files that cannot be renamed: shutil.move raises
  service,    \* what the naming service currently yields: a name or "FAIL"
  held,       \* the names of the placed files that cannot be removed: os.remove raises
  wnow,       \* time.time() as the watcher reads it, in half seconds
  stamps,     \* SEFSEventHandler.last_events with its times: (kind, path) -> time
  sent,       \* the callbacks the watcher made, with the time of each
  running,    \* Worker._is_running
  passed,     \* stop() found the Worker inside event_queue.get, past the loop test
  late,       \* number of Worker steps that finished after stop() (history variable)
  names,      \* the file names the user works with in the root
  dbfail,     \* the store raises on every call (sqlite3.Error)
  observer,   \* FileMonitor.observer: "new", "started", "stopped", or "spent"
              \* (stop() called on it before start())
  stopping,   \* Worker.stop(): "none" (not called), "flagged", "waiting",
              \* "returned", "raised"
  last        \* what the Worker's last step did (history variable)

vars == <<files, dirs, pending, seen, queue, db, cache, pc, clock, extOps,
          platform, enabled, locked, service, held, wnow, stamps, sent,
          running, passed, late, names, dbfail, observer, stopping, last>>

\* the watcher's clock and timed table: read only where the time of a
\* notification is followed (WatcherSpec)
timed == <<wnow, stamps, sent>>

\* the stop flag and what follows it: changed by stop() and by the Worker
life == <<running, passed, late>>

\* what a run is set up with and the health of the store
setup == <<names, dbfail>>

\* the watcher thread and the call of stop()
halt == <<observer, stopping>>

\* the state of a Worker nobody has stopped, over a healthy store
Plain(ns) ==
  /\ running = TRUE /\ passed = FALSE /\ late = 0
  /\ names = ns /\ dbfail = FALSE
  /\ observer = "new" /\ stopping = "none"

RootPaths == {Path(Root, n) : n \in Names}

\* the root-level paths of the names in play
UserPaths == {Path(Root, n) : n \in names}

NoLast == [kind |-> "none", path |-> Path(Root, TmpName), sys |-> FALSE,
           stop |-> "none", tracked |-> FALSE, hashSame |-> FALSE, existed |-> FALSE,
           hasText |-> FALSE,
           pf |-> "none", extracted |-> FALSE, pfChanged |-> FALSE, pfIdem |-> TRUE,
           pass |-> FALSE, groups |-> 0, names |-> 0, reqs |-> 0, calls |-> <<>>,
           ncalls |-> <<>>, gcalls |-> <<>>, emits |-> <<>>, procs |-> {},
           arg |-> <<>>, got |-> <<>>, snap |-> <<>>,
           again |-> [moved |-> FALSE, changed |-> FALSE, reqs |-> 0],
           note |-> [kind |-> "none", isdir |-> FALSE, fwd |-> FALSE,
                     delivered |-> FALSE, at |-> 0],
           dbChanged |-> FALSE, diskChanged |-> FALSE]

\* the state after Worker.__init__ in a root that holds some of the files
\* named ns: the store cleared, nothing queued
Boot(ns) ==
  /\ \E S \in SUBSET {Path(Root, n) : n \in ns} : files = [q \in S |-> "t1"]
  /\ dirs = {}
  /\ pending = <<>>
  /\ seen = {}
  /\ queue = <<>>
  /\ db = <<>>
  /\ cache = <<>>
  /\ pc = "idle"
  /\ clock = 1
  /\ extOps = 0
  /\ platform \in {"moved", "pair"}
  /\ enabled \in BOOLEAN
  /\ locked \in SUBSET Lockable
  /\ service \in IF enabled THEN Replies ELSE {"FAIL"}
  /\ held = {}          \* a failing os.remove is followed in PlacementSpec
  /\ wnow = 0
  /\ stamps = <<>>
  /\ sent = <<>>
  /\ last = NoLast

Init ==
  /\ Boot(Names)
  /\ Plain(Names)

\* ------------------------------------------------- the outside world
workerVars == <<queue, db, cache, pc, clock, platform, enabled>>

\* (changes made after the Worker thread has ended are not followed)
External(fs, notes, lk, sv) ==
  /\ pc \notin {"idle", "stopped", "crashed"}
  /\ Len(pending) + Len(queue) < MaxQueue
  /\ extOps < MaxExt
  /\ extOps' = extOps + 1
  /\ files' = fs
  /\ pending' = pending \o notes
  /\ locked' = lk
  /\ service' = sv
  /\ last' = NoLast
  /\ UNCHANGED <<dirs, seen, workerVars, held, timed, life, setup, halt>>

Note(kind, path) == [kind |-> kind, path |-> path, sys |-> FALSE]

\* a new file is written into the root
ExtCreate ==
  \E q \in UserPaths \ DOMAIN files, c \in Contents :
    External((q :> c) @@ files, << Note("created", q) >>, locked, service)

\* a file anywhere under the root is rewritten (possibly with the same bytes)
ExtEdit ==
  \E q \in DOMAIN files, c \in Contents :
    External([files EXCEPT ![q] = c], << Note("modified", q) >>, locked, service)

\* a file anywhere under the root is deleted
ExtDelete ==
  \E q \in DOMAIN files :
    External([r \in DOMAIN files \ {q} |-> files[r]], << Note("deleted", q) >>, locked, service)

\* a finished download is renamed from a temporary name to a name in the root
ExtRenameIn ==
  \E q \in UserPaths \ DOMAIN files, c \in Contents :
    External((q :> c) @@ files, RenameNotes(platform, Path(Root, TmpName), q, FALSE),
             locked, service)

\* whatever kept a file from being renamed goes away
ExtUnlock ==
  \E n \in locked : External(files, <<>>, locked \ {n}, service)

\* the naming service starts or stops answering
ExtService ==
  /\ enabled
  /\ \E r \in Replies \ {service} : External(files, <<>>, locked, r)

\* ------------------------------------------------- file_monitor.py
\* SEFSEventHandler._is_valid_file
IsValidFile(path, fs) ==
  /\ path.name[1] # ""                       \* not filename.startswith('.')
  /\ path.name[2] \notin {".tmp", ".crdownload"}
  /\ path.name[1] # "sefs"                   \* 'sefs.db' not in filename
  /\ path \in DOMAIN fs                      \* os.path.isfile(path)

\* on_moved / on_created / on_deleted / on_modified: whether _trigger is called
Forwarded(n, fs) == n.kind = "deleted" \/ IsValidFile(n.path, fs)

\* debounce_seconds = 1.0, in half seconds
Debounce == 2

\* the key of last_events with the event type left out
DebounceKeyPathOnly(kind, path) == <<"any", path>>

\* key = (event_type, path)
DebounceKey(kind, path) == <<kind, path>>

\* lines 61-63 of _trigger: the key was recorded less than debounce_seconds ago
Debounced(st, key, now) == key \in DOMAIN st /\ now - st[key] < Debounce

\* the watcher with process_event as its callback: a deleted event removes
\* the record on the observer thread
DeliverAndProcess ==
  /\ pc # "idle"
  /\ pending # <<>>
  /\ LET n == Head(pending) IN
     /\ pending' = Tail(pending)
     /\ db' = IF n.kind = "deleted" THEN RemoveFile(db, n.path) ELSE db
  /\ last' = NoLast
  /\ UNCHANGED <<files, dirs, seen, queue, cache, pc, clock, extOps, platform, enabled,
                 locked, service, held, timed, life, setup, halt>>

\* the observer thread dispatches one notification: the handler filters it
\* and _trigger debounces it; a repeated key is dropped when less than
\* debounce_seconds have passed since it was recorded, which either is the case
\* or is not
Deliver ==
  /\ pc \notin {"idle", "stopped", "crashed"}
  /\ observer = "started"
  /\ pending # <<>>
  /\ LET n == Head(pending)
         key == DebounceKey(n.kind, n.path)
     IN /\ pending' = Tail(pending)
        /\ \/ /\ Forwarded(n, files)
              /\ seen' = seen \cup {key}
              /\ queue' = Append(queue, n)
           \/ /\ ~Forwarded(n, files) \/ key \in seen
              /\ UNCHANGED <<seen, queue>>
  /\ last' = NoLast
  /\ UNCHANGED <<files, dirs, db, cache, pc, clock, extOps, platform, enabled,
                 locked, service, held, timed, life, setup, halt>>

\* --------------------------------------------------------- Worker
\* the largest number of rows of one extension
GroupSize(d) ==
  LET n(e) == Cardinality({i \in 1..Len(d) : ExtOf(d[i].path) = e})
      sizes == {n(ExtOf(d[i].path)) : i \in 1..Len(d)} \cup {0}
  IN CHOOSE m \in sizes : \A k \in sizes : k <= m

\* the inputs of one Worker step on store d: the labelling the Grouping
\* Engine yields for three or more vectors, the reply of the naming service
\* per cluster id, the names for which shutil.move or os.remove raises, the time
Envs(d) ==
  [pick : IF GroupSize(d) < 3 THEN {<<>>} ELSE [1..GroupSize(d) -> ClusterIds],
   orc  : {[c \in ClusterIds |-> service]},
   fail : {locked},
   stuck : {held},
   now  : {clock},
   plat : {platform},
   en   : {enabled}]

\* Worker.run entering its loop without the scan
StartNoScan ==
  /\ pc = "idle"
  /\ pc' = "watching"
  /\ observer' \in IF observer = "new" THEN {"started"} ELSE {"started", "stopped"}
  /\ last' = NoLast
  /\ UNCHANGED <<files, dirs, pending, seen, queue, db, cache, clock, extOps,
                 platform, enabled, locked, service, held, timed, life, setup, stopping>>

\* Worker.run up to the scan: monitor.start()
Start ==
  /\ pc = "idle"
  /\ pc' = "scanning"
  /\ observer' \in IF observer = "new" THEN {"started"} ELSE {"started", "stopped"}
  /\ last' = NoLast
  /\ UNCHANGED <<files, dirs, pending, seen, queue, db, cache, clock, extOps,
                 platform, enabled, locked, service, held, timed, life, setup, stopping>>

RECURSIVE ProcessAll(_, _, _, _)
ProcessAll(d, fs, order, now) ==
  IF order = <<>> THEN d
  ELSE ProcessAll(ProcessFile(d, fs, Head(order), now).db, fs, Tail(order), now)

Orders(S) == {o \in [1..Cardinality(S) -> S] : \A i, j \in 1..Cardinality(S) : o[i] = o[j] => i = j}

\* os.listdir(root) without directories, hidden files, *.tmp and sefs.db
ScanCandidates(fs) ==
  {q \in DOMAIN fs : /\ q.dir = Root
                     /\ q.name[1] # ""
                     /\ q.name[2] # ".tmp"
                     /\ q.name[1] # "sefs"}

\* what a Worker step leaves behind
Commit(res, rec) ==
  /\ db' = res.db
  /\ files' = res.files
  /\ dirs' = res.dirs
  /\ cache' = res.cache
  /\ pending' = pending \o res.notes
  /\ clock' = IF res.db # db THEN clock + 1 ELSE clock
  /\ last' = [rec EXCEPT !.groups = res.groups, !.names = res.names,
                         !.reqs = res.reqs, !.calls = res.calls, !.ncalls = res.ncalls,
                         !.gcalls = res.gcalls, !.emits = res.emits,
                         !.snap = res.rows,
                         !.dbChanged = res.db # db,
                         !.diskChanged = res.files # files \/ res.dirs # dirs]

\* the state a step that returns early leaves
Same == [db |-> db, files |-> files, dirs |-> dirs, cache |-> cache, notes |-> <<>>,
         calls |-> <<>>, ncalls |-> <<>>, cnames |-> <<>>, groups |-> 0, names |-> 0,
   reqs |-> 0, gcalls |-> <<>>, data |-> <<>>, coords |-> <<>>, emits |-> <<>>,
   rows |-> <<>>]

\* Worker.scan_existing_files
Scan ==
  /\ pc = "scanning"
  /\ clock < MaxClock
  /\ IF dbfail
     THEN \* the first store call raises (db.get_file in process_file, or
          \* db.get_all_files in _cleanup_missing_files): nothing catches
          \* it in run, the thread ends
          /\ Commit(Same, [NoLast EXCEPT !.kind = "scan", !.stop = "raised"])
          /\ pc' = "crashed"
     ELSE /\ \E order \in Orders(ScanCandidates(files)) :
               LET d1 == CleanupMissingFiles(ProcessAll(db, files, order, clock), files) IN
               \E env \in Envs(d1) :
                 Commit(ReclusterAndUpdate(d1, files, dirs, cache, env),
                        [NoLast EXCEPT !.kind = "scan", !.pass = TRUE,
                                       !.procs = ScanCandidates(files)])
          /\ pc' = "watching"
  /\ late' = IF running THEN late ELSE late + 1
  /\ UNCHANGED <<seen, queue, extOps, platform, enabled, locked, service, held, timed,
                 running, passed, setup, halt>>

\* process_event without the subfolder check of lines 119-121
InOrganizedSubfolderNever(path) == FALSE

\* os.path.dirname(path) != self.root_path
InOrganizedSubfolder(path) == path.dir # Root

\* the modified branch without the hash comparison of lines 128-133
HashUnchangedNever(d, fs, path) == FALSE

\* the check of the modified branch: a record exists and the file's hash
\* equals the stored one (compute_file_hash yields None for a missing file)
HashUnchanged(d, fs, path) ==
  LET i == Find(d, path) IN
  /\ i # 0
  /\ path \in DOMAIN fs
  /\ d[i].hash = ComputeFileHash(fs[path])

\* event_queue.get taking the newest event
QueueGetNewest(q) == [event |-> q[Len(q)], rest |-> SubSeq(q, 1, Len(q) - 1)]

\* event_queue.get leaving the event on the queue
QueueGetKeep(q) == [event |-> Head(q), rest |-> q]

\* event_queue.get on a non-empty queue.Queue: the oldest event, removed
QueueGet(q) == [event |-> Head(q), rest |-> Tail(q)]

\* one iteration of the loop of Worker.run that gets an event:
\* Worker.process_event(event_type, path) for the event at the head of the
\* queue.  The test of `while self._is_running' that follows the step is
\* taken with the step: a Worker that is between steps is inside
\* event_queue.get, and passed tells whether it still is after stop()
HandleEvent ==
  /\ pc = "watching"
  /\ running \/ passed
  /\ queue # <<>>
  /\ clock < MaxClock
  /\ queue' = QueueGet(queue).rest
  /\ passed' = FALSE
  /\ late' = IF running THEN late ELSE late + 1
  /\ LET e == QueueGet(queue).event
         here == e.path \in DOMAIN files
         rec == [NoLast EXCEPT !.kind = e.kind, !.path = e.path, !.sys = e.sys,
                               !.tracked = HasRecord(db, e.path),
                               !.hashSame = /\ HasRecord(db, e.path)
                                            /\ here
                                            /\ db[Find(db, e.path)].hash =
                                                 ComputeFileHash(files[e.path]),
                               !.existed = here,
                               !.hasText = here /\ TextLen(files[e.path]) > MinTextLen]
         pf == ProcessFile(db, files, e.path, clock)
         ran == [rec EXCEPT !.pf = pf.res, !.extracted = pf.extracted,
                            !.pfChanged = pf.db # db,
                            !.pfIdem = ProcessFile(pf.db, files, e.path, clock + 1).db = pf.db,
                            !.pass = TRUE, !.procs = {e.path}]
     IN
     IF InOrganizedSubfolder(e.path)
       THEN Commit(Same, [rec EXCEPT !.stop = "subfolder"])
     ELSE IF dbfail /\ e.kind \in {"created", "modified", "deleted"}
       THEN \* the first store call of the branch raises before anything is
            \* written; `except Exception' of run logs it and the loop goes on
            Commit(Same, [rec EXCEPT !.stop = "raised"])
     ELSE IF e.kind = "created"
       THEN \E env \in Envs(pf.db) :
              Commit(ReclusterAndUpdate(pf.db, files, dirs, cache, env), ran)
     ELSE IF e.kind = "modified"
       THEN IF HashUnchanged(db, files, e.path)
            THEN Commit(Same, [rec EXCEPT !.stop = "hash_equal"])
            ELSE \E env \in Envs(pf.db) :
                   Commit(ReclusterAndUpdate(pf.db, files, dirs, cache, env), ran)
     ELSE IF e.kind = "deleted"
       THEN LET d1 == RemoveFile(db, e.path) IN
            \E env \in Envs(d1) :
              Commit(ReclusterAndUpdate(d1, files, dirs, cache, env),
                     [rec EXCEPT !.pass = TRUE])
     ELSE Commit(Same, [rec EXCEPT !.stop = "nobranch"])
  /\ UNCHANGED <<seen, pc, extOps, platform, enabled, locked, service, held, timed,
                 running, setup, halt>>

Next ==
  \/ Start
  \/ Scan
  \/ HandleEvent
  \/ Deliver
  \/ ExtCreate
  \/ ExtEdit
  \/ ExtDelete
  \/ ExtRenameIn
  \/ ExtUnlock
  \/ ExtService

Spec == Init /\ [][Next]_vars

\* --------------------------------------------- the Record Store alone
\* the store called with any of these path strings, in any order
MaxOps == 3
PathStrings ==
  {<<"root", "a.txt">>, <<"root", "", "a.txt">>, <<"root", ".", "a.txt">>,
   <<"root", "sub", "..", "a.txt">>, <<"root", "sub", "a.txt">>,
   <<"root", "sub", "a.txt", "">>, <<"root", "b.txt">>}
Hashes == {"h1", "h2"}

StoreInit ==
  /\ db = <<>>
  /\ extOps = 0
  /\ files = <<>> /\ dirs = {}
  /\ pending = <<>> /\ seen = {} /\ queue = <<>> /\ cache = <<>>
  /\ pc = "idle" /\ clock = 1
  /\ platform = "moved" /\ enabled = FALSE /\ locked = {} /\ held = {}
  /\ service = "FAIL"
  /\ wnow = 0 /\ stamps = <<>> /\ sent = <<>>
  /\ last = NoLast
  /\ Plain(Names)

\* one call of the store: d is what it leaves, got what it returns
StoreCall(kind, s, arg, d, got) ==
  /\ extOps < MaxOps
  /\ extOps' = extOps + 1
  /\ db' = d
  /\ last' = [NoLast EXCEPT !.kind = kind, !.arg = [path |-> s, val |-> arg],
                            !.got = got]
  /\ UNCHANGED <<files, dirs, pending, seen, queue, cache, pc, clock, platform,
                 enabled, locked, service, held, timed, life, setup, halt>>

CallUpsertFile ==
  \E s \in PathStrings, h \in Hashes :
    StoreCall("upsert", s, h, DbUpsertFile(db, s, h, << 1 >>, clock, "text"), <<>>)

CallGetFile ==
  \E s \in PathStrings : StoreCall("get", s, "", db, DbGetFile(db, s))

CallUpdateCluster ==
  \E s \in PathStrings, cid \in {0, 1} :
    StoreCall("update_cluster", s, cid, DbUpdateCluster(db, s, cid), <<>>)

CallRemoveFile ==
  \E s \in PathStrings : StoreCall("remove", s, "", DbRemoveFile(db, s), <<>>)

CallClearAll ==
  StoreCall("clear_all", <<>>, "", DbClearAll(db), <<>>)

StoreNext ==
  \/ CallUpsertFile
  \/ CallGetFile
  \/ CallUpdateCluster
  \/ CallRemoveFile
  \/ CallClearAll

StoreSpec == StoreInit /\ [][StoreNext]_vars

\* ------------------------------------------ the threads are scheduled
\* a Scan step, told by what it does to pc; Scan is enabled whenever
\* pc = "scanning"
ScanStep == pc = "scanning" /\ pc' = "watching"

\* a HandleEvent step, told by what it does to the queue; HandleEvent is
\* enabled whenever these guards hold
HandleStep ==
  /\ pc = "watching"
  /\ running \/ passed
  /\ queue # <<>>
  /\ clock < MaxClock
  /\ queue' = QueueGet(queue).rest

\* the Worker thread runs (run starts, the scan returns, a queued event is
\* got and handled) and the observer thread dispatches what the OS reports
LiveSpec ==
  /\ Init
  /\ [][Next]_vars
  /\ WF_vars(Start)
  /\ WF_pc(ScanStep)
  /\ WF_queue(HandleStep)
  /\ WF_vars(Deliver)

\* ------------------------------------- a wider root and a failing store
\* the root also holds a source file; the store may raise
WideNames == {<<"a", ".txt">>, <<"s", ".py">>}

WideInit ==
  /\ Boot(WideNames)
  /\ platform = "pair"
  /\ enabled = FALSE
  /\ locked = {}
  /\ running = TRUE /\ passed = FALSE /\ late = 0
  /\ names = WideNames
  /\ dbfail \in BOOLEAN
  /\ observer = "new" /\ stopping = "none"

\* the store starts or stops raising on every call (the database file is
\* locked, the disk is full, ...)
ExtStoreFault ==
  /\ pc \notin {"idle", "stopped", "crashed"}
  /\ extOps < MaxExt
  /\ extOps' = extOps + 1
  /\ dbfail' = ~dbfail
  /\ last' = NoLast
  /\ UNCHANGED <<files, dirs, pending, seen, queue, db, cache, pc, clock,
                 platform, enabled, locked, service, held, timed, life, names, halt>>

WideNext ==
  \/ Start
  \/ Scan
  \/ HandleEvent
  \/ Deliver
  \/ ExtCreate
  \/ ExtEdit
  \/ ExtDelete
  \/ ExtRenameIn
  \/ ExtStoreFault

WideSpec == WideInit /\ [][WideNext]_vars

\* ------------------------------------------------- stopping the Worker
\* stop() with a Worker that gets an event before it tests the flag again
StopUntested ==
  /\ running
  /\ stopping = "none"
  /\ pc \notin {"stopped", "crashed"}
  /\ running' = FALSE
  /\ passed' = TRUE
  /\ stopping' = "flagged"
  /\ last' = NoLast
  /\ UNCHANGED <<files, dirs, pending, seen, queue, db, cache, pc, clock, extOps,
                 platform, enabled, locked, service, held, timed, late, setup, observer>>

\* Worker.stop, its first statement: _is_running = False.  A Worker that
\* is between two steps may already be inside event_queue.get(timeout=1.0).
\* The statements that follow are StopMonitor and StopWait
Stop ==
  /\ running
  /\ stopping = "none"
  /\ pc \notin {"stopped", "crashed"}
  /\ running' = FALSE
  /\ passed' = (pc = "watching")
  /\ stopping' = "flagged"
  /\ last' = NoLast
  /\ UNCHANGED <<files, dirs, pending, seen, queue, db, cache, pc, clock, extOps,
                 platform, enabled, locked, service, held, timed, late, setup, observer>>

\* the loop test of Worker.run finds _is_running false (at once, or after
\* queue.Empty and continue): run returns
Exit ==
  /\ pc = "watching"
  /\ ~running
  /\ pc' = "stopped"
  /\ passed' = FALSE
  /\ last' = NoLast
  /\ UNCHANGED <<files, dirs, pending, seen, queue, db, cache, clock, extOps,
                 platform, enabled, locked, service, held, timed, running, late, setup, halt>>

\* a run without naming service and without files that refuse to move
StopInit ==
  /\ Init
  /\ platform = "pair"
  /\ enabled = FALSE
  /\ locked = {}

StopNext ==
  \/ Start
  \/ Scan
  \/ HandleEvent
  \/ Deliver
  \/ ExtCreate
  \/ ExtEdit
  \/ ExtDelete
  \/ ExtRenameIn
  \/ Stop
  \/ Exit

\* the Worker thread is scheduled: run starts, the scan returns, and the
\* loop test is reached (event_queue.get returns within its timeout)
StopSpec ==
  /\ StopInit
  /\ [][StopNext]_vars
  /\ WF_vars(Start)
  /\ WF_pc(ScanStep)
  /\ WF_queue(HandleStep)
  /\ WF_vars(Deliver)
  /\ WF_vars(Exit)

\* ------------------------------------------- the Placement Engine alone
\* move_file called on any small disk with any path and label
MaxFiles == 2
PlaceNames == {<<"a", ".txt">>, <<"b", ".PDF">>, <<"c", ".xyz">>}
PlaceLabels == {"Finance", "Semantic_Cluster_0"}
PlacePaths ==
  {Path(Root, n) : n \in PlaceNames}
  \cup {Destination(Path(Root, n), l) : n \in PlaceNames, l \in PlaceLabels}

PlacementInit ==
  /\ \E S \in SUBSET PlacePaths :
       /\ Cardinality(S) <= MaxFiles
       /\ files = [q \in S |-> IF q.dir = Root THEN "t1" ELSE "t2"]
       /\ dirs = {q.dir : q \in S} \ {Root}
  /\ locked \in SUBSET Lockable
  /\ held \in SUBSET Holdable
  /\ platform = "moved"
  /\ pending = <<>> /\ seen = {} /\ queue = <<>> /\ db = <<>> /\ cache = <<>>
  /\ pc = "idle" /\ clock = 1 /\ extOps = 0
  /\ enabled = FALSE /\ service = "FAIL"
  /\ wnow = 0 /\ stamps = <<>> /\ sent = <<>>
  /\ last = NoLast
  /\ Plain(Names)

\* FolderManager.move_file(path, label, root) on the disk as it is
CallMoveFile ==
  \E path \in PlacePaths, label \in PlaceLabels :
    LET mv == MoveFile(files, dirs, path, label, locked, held, platform) IN
    /\ files' = mv.files
    /\ dirs' = mv.dirs
    /\ last' = [NoLast EXCEPT !.kind = "move_file", !.path = path,
                              !.calls = << MoveCall(files, dirs, path, label, mv) >>]
    /\ UNCHANGED <<pending, seen, queue, db, cache, pc, clock, extOps, platform,
                   enabled, locked, service, held, timed, life, setup, halt>>

PlacementNext == CallMoveFile

PlacementSpec == PlacementInit /\ [][PlacementNext]_vars
\* ================================================================ claims
\* the moves a step made: calls of move_file that relocated the file
Moves == {i \in 1..Len(last.calls) : last.calls[i].ok /\ last.calls[i].ret # last.calls[i].src}

\* the step did nothing
Ignored ==
  /\ ~last.extracted
  /\ ~last.pass
  /\ last.groups = 0
  /\ last.names = 0
  /\ last.calls = <<>>
  /\ ~last.dbChanged
  /\ ~last.diskChanged

\* C1: a created event for a path that has a record is ignored: nothing is
\* fingerprinted, no pass runs, no name is asked for, store and disk stay
C1_CreatedOnRecordIgnored ==
  (last.kind = "created" /\ last.tracked) => Ignored

\* C2 (as claimed): every event a move of the Placement Engine produces is
\* stopped by the record-exists or by the hash-equality short-circuit
C2_StoppedByRecordOrHash ==
  last.sys => (~last.extracted /\ last.stop \in {"record_exists", "hash_equal"})

\* C2 (amended): no event a move of the Placement Engine produces leads to
\* process_file being run at all: an event at the destination is stopped by
\* the subfolder check, the deleted event at the source takes the deleted
\* branch, which extracts and fingerprints nothing
C2_SysEventNeverFingerprints ==
  last.sys =>
    /\ ~last.extracted
    /\ last.pf = "none"
    /\ last.stop = "subfolder" \/ (last.kind = "deleted" /\ last.path.dir = Root)

C2_Witness ==
  /\ last.sys
  /\ last.kind \in {"created", "moved"}
  /\ last.stop = "subfolder"
  /\ last.tracked

\* C3: after the deleted event of a file that is gone from disk is handled,
\* the store holds no record at its path, wherever under the root it was, and
\* a pass neither creates a folder nor moves anything for a missing file
C3_DeletedRemovesRecord ==
  /\ (last.kind = "deleted" /\ ~last.existed) => ~HasRecord(db, last.path)
  /\ \A i \in 1..Len(last.calls) :
       ~last.calls[i].existed => (~last.calls[i].ok /\ ~last.calls[i].wrote)

\* C4 (as claimed): handling a deleted event makes no grouping call, no
\* naming call and no move
C4_NoPassOnDelete ==
  last.kind = "deleted" => (last.groups = 0 /\ last.names = 0 /\ Moves = {})

\* C4 (amended): a deleted event for a path directly under the root removes
\* the record and then runs a Reclustering Pass, with one grouping call per
\* extension that still has records; a deleted event for a path inside a
\* subfolder is dropped and triggers nothing
C4_DeleteAtRootRunsPass ==
  last.kind = "deleted" =>
    IF last.path.dir = Root
    THEN /\ last.pass
         /\ ~HasRecord(db, last.path)
         /\ last.groups = Len(ExtSeq(db, <<>>))
         /\ last.names >= last.groups
         /\ Len(last.calls) >= Len(db)
    ELSE Ignored

C4_Witness ==
  /\ last.kind = "deleted"
  /\ last.path.dir = Root
  /\ last.groups > 0
  /\ last.names > 0

\* C5: a modified event for a tracked path whose hash equals the stored hash
\* is ignored: record unchanged, no naming call, no grouping call, no move
C5_UnchangedModifyIgnored ==
  (last.kind = "modified" /\ last.tracked /\ last.hashSame) => Ignored

C5_Witness ==
  /\ last.kind = "modified"
  /\ last.tracked
  /\ last.hashSame
  /\ last.stop = "hash_equal"

\* C6: a modified event for a tracked file whose hash differs from the stored
\* one (and whose new content can be fingerprinted) runs the Processing Step,
\* which stores the new hash, and then a Reclustering Pass, wherever the file is
C6_ModifiedReprocesses ==
  (last.kind = "modified" /\ last.tracked /\ last.existed /\ ~last.hashSame
     /\ last.hasText)
  => (last.pf = "stored" /\ last.extracted /\ last.pass /\ last.dbChanged)

\* C7: process_file on a path whose record holds the file's current hash
\* changes no record and extracts nothing, and processing a file a second
\* time leaves the store as the first time left it
C7_ProcessUnchangedNoEffect ==
  /\ (last.pf # "none" /\ last.tracked /\ last.hashSame) =>
       (last.pf = "hash_match" /\ ~last.extracted /\ ~last.pfChanged)
  /\ last.pf # "none" => last.pfIdem

C7_Witness ==
  /\ last.pf = "hash_match"
  /\ last.tracked
  /\ last.hashSame

\* C8: in a quiescent state every record's path names a file on disk and no
\* two records have the same path
Quiescent == pc = "watching" /\ queue = <<>> /\ pending = <<>>

C8_QuiescentRecordsOnDisk ==
  Quiescent =>
    /\ \A i \in 1..Len(db) : db[i].path \in DOMAIN files
    /\ \A i, j \in 1..Len(db) : db[i].path = db[j].path => i = j

\* C9: a new untracked file in the root reported by a single moved event is
\* processed, gets a record and is included in a pass, as with created
C9_MovedProcessed ==
  (last.kind = "moved" /\ last.path.dir = Root /\ last.existed /\ ~last.tracked
     /\ last.hasText)
  => (last.pf = "stored" /\ last.pass /\ last.groups > 0)

\* C10: move_file on a file that already is at root/label/type/basename
\* returns the same path and writes nothing to disk
C10_MoveInPlaceNoWrite ==
  \A i \in 1..Len(last.calls) :
    LET c == last.calls[i] IN
    (c.existed /\ c.src = Destination(c.src, c.label)) =>
      (c.ok /\ c.ret = c.src /\ ~c.wrote)

C10_Witness ==
  \E i \in 1..Len(last.calls) :
    LET c == last.calls[i] IN
    c.existed /\ c.src = Destination(c.src, c.label) /\ c.ok /\ c.ret = c.src

\* ------------------------------------------- the Change Watcher alone
\* any OS notification at any time, with the watcher's clock followed
MaxTime == 4         \* half seconds the clock runs
MaxNotes == 3        \* notifications dispatched
WatchNames == {<<"a", ".txt">>, <<"dl", ".crdownload">>, <<"", ".env">>}
WatchPaths == {Path(Root, n) : n \in WatchNames}
Kinds == {"created", "modified", "moved", "deleted"}

WatcherInit ==
  /\ \E S \in {{}, WatchPaths} : files = [q \in S |-> "t1"]
  /\ dirs = {}
  /\ pending = <<>> /\ seen = {} /\ queue = <<>> /\ db = <<>> /\ cache = <<>>
  /\ pc = "scanning" /\ clock = 1 /\ extOps = 0
  /\ platform = "moved" /\ enabled = FALSE /\ locked = {} /\ held = {}
  /\ service = "FAIL"
  /\ wnow = 0 /\ stamps = <<>> /\ sent = <<>>
  /\ last = NoLast
  /\ Plain(Names)

\* half a second passes
Tick ==
  /\ wnow < MaxTime
  /\ wnow' = wnow + 1
  /\ last' = NoLast
  /\ UNCHANGED <<files, dirs, pending, seen, queue, db, cache, pc, clock, extOps,
                 platform, enabled, locked, service, held, stamps, sent, life, setup, halt>>

\* the observer calls on_<kind>(event) for a file or a directory at path
\* (dest_path for moved): the handler filters, _trigger debounces and calls
\* Worker.handle_file_event, which puts (kind, path) on the event queue
OnEvent ==
  /\ extOps < MaxNotes
  /\ extOps' = extOps + 1
  /\ \E kind \in Kinds, path \in WatchPaths, isdir \in BOOLEAN :
       LET key == DebounceKey(kind, path)
           fwd == ~isdir /\ Forwarded([kind |-> kind, path |-> path], files)
           deliver == fwd /\ ~Debounced(stamps, key, wnow)
       IN
       /\ stamps' = IF deliver THEN (key :> wnow) @@ stamps ELSE stamps
       /\ seen' = IF deliver THEN seen \cup {key} ELSE seen
       /\ queue' = IF deliver
                   THEN Append(queue, [kind |-> kind, path |-> path, sys |-> FALSE])
                   ELSE queue
       /\ sent' = IF deliver
                  THEN Append(sent, [kind |-> kind, path |-> path, at |-> wnow])
                  ELSE sent
       /\ last' = [NoLast EXCEPT !.kind = "notify", !.path = path,
                                 !.note = [kind |-> kind, isdir |-> isdir, fwd |-> fwd,
                                           delivered |-> deliver, at |-> wnow]]
  /\ UNCHANGED <<files, dirs, pending, db, cache, pc, clock, platform,
                 enabled, locked, service, held, wnow, life, setup, halt>>

WatcherNext ==
  \/ Tick
  \/ OnEvent

WatcherSpec == WatcherInit /\ [][WatcherNext]_vars

\* --------------------------------------------- the Naming Oracle alone
\* generate_folder_name called with any samples, id and service behaviour
SampleSeqs ==
  {<<>>,
   << ContentSample("t1") >>, << ContentSample("t2") >>,
   << ContentSample("short") >>, << ContentSample("p/q") >>,
   << ContentSample("short"), ContentSample("t1") >>}

NamerInit ==
  /\ enabled \in BOOLEAN
  /\ cache = <<>>
  /\ files = <<>> /\ dirs = {}
  /\ pending = <<>> /\ seen = {} /\ queue = <<>> /\ db = <<>>
  /\ pc = "idle" /\ clock = 1 /\ extOps = 0
  /\ platform = "moved" /\ locked = {} /\ held = {} /\ service = "FAIL"
  /\ wnow = 0 /\ stamps = <<>> /\ sent = <<>>
  /\ last = NoLast
  /\ Plain(Names)

\* AINamer.generate_folder_name(samples, cid) with the cache as it is
CallGenerateFolderName ==
  \E samples \in SampleSeqs, cid \in ClusterIds, replies \in [1..MaxRetries -> Outcomes] :
    LET g == GenerateFolderName(cache, enabled, samples, cid, replies) IN
    /\ cache' = g.cache
    /\ last' = [NoLast EXCEPT !.kind = "generate_folder_name", !.names = 1,
                              !.reqs = g.reqs,
                              !.ncalls = << NameCall(cache, enabled, samples, cid,
                                                     replies, g) >>]
    /\ UNCHANGED <<files, dirs, pending, seen, queue, db, pc, clock, extOps, platform,
                   enabled, locked, service, held, timed, life, setup, halt>>

NamerNext == CallGenerateFolderName

NamerSpec == NamerInit /\ [][NamerNext]_vars

\* the type folder each extension of PlaceNames belongs in
BucketOf(ext) ==
  CASE ext = ".txt" -> "Text_Files"
    [] ext = ".PDF" -> "PDF_Documents"
    [] ext = ".xyz" -> "XYZ_Files"
    [] OTHER -> "?"

\* C11: move_file on a path that is not on disk returns None and changes
\* nothing on disk: no file, no group or type directory
C11_MissingSourceNoChange ==
  \A i \in 1..Len(last.calls) :
    ~last.calls[i].existed => (~last.calls[i].ok /\ ~last.calls[i].wrote)

\* a call for a missing file whose target directory does not exist
C11_Witness ==
  /\ last.kind = "move_file"
  /\ \E i \in 1..Len(last.calls) :
       LET c == last.calls[i] IN
       /\ ~c.existed
       /\ ~c.ok
       /\ Destination(c.src, c.label).dir \notin dirs

\* C12: a successful move with nothing in the way returns
\* root/label/type_bucket(ext)/basename; the file, with its content, is then
\* at that path and no longer at its old one; the type folder is the one
\* the extension alone decides, whatever its case, the label or the base name
C12_MoveReturnsCanonical ==
  \A i \in 1..Len(last.calls) :
    LET c == last.calls[i]
        canonical == [dir |-> <<c.label, BucketOf(c.src.name[2])>>, name |-> c.src.name]
    IN (last.kind = "move_file" /\ c.ok /\ ~c.collided /\ c.src # canonical) =>
         /\ c.ret = canonical
         /\ c.ret \in DOMAIN files
         /\ files[c.ret] = c.content
         /\ c.src \notin DOMAIN files

\* a file with an upper-case extension was moved to its type folder
C12_Witness ==
  /\ last.kind = "move_file"
  /\ \E i \in 1..Len(last.calls) :
       LET c == last.calls[i] IN
       /\ c.ok /\ ~c.collided /\ c.src # c.ret
       /\ c.src.name[2] = ".PDF"
       /\ c.ret.dir = <<c.label, "PDF_Documents">>
       /\ c.ret \in DOMAIN files

\* C13: a successful move that found another file at the destination
\* returns the canonical destination, which then holds the moved content
C13_CollisionAlwaysReplaces ==
  \A i \in 1..Len(last.calls) :
    LET c == last.calls[i] IN
    (last.kind = "move_file" /\ c.ok /\ c.collided) =>
      /\ c.ret = Destination(c.src, c.label)
      /\ files[c.ret] = c.content

\* C14: when move_file returns None for a record during a pass, the record
\* is as it was before the pass: same path and same group id
C14_FailedMoveKeepsRecord ==
  \A i \in 1..Len(last.calls) :
    LET c == last.calls[i] IN
    (last.pass /\ ~c.ok) =>
      /\ Len(c.after) = 1
      /\ c.after[1].path = c.before.path
      /\ c.after[1].cluster = c.before.cluster

\* the samples of a naming call that pass the filter of lines 54-61
ValidOf(c) == SelectSeq(Take(c.samples, 5), ValidSample)

\* C15: a naming call that yields no name because the oracle is disabled or
\* the samples are empty or all invalid returns Miscellaneous_Files for
\* id -1 and Semantic_Cluster_<id> for every other id
C15_FallbackWhenNoName ==
  \A i \in 1..Len(last.ncalls) :
    LET c == last.ncalls[i] IN
    (~c.en \/ ValidOf(c) = <<>>) =>
      c.name = IF c.cid = -1 THEN "Miscellaneous_Files" ELSE SemanticCluster(c.cid)

\* C16: group -1 gets the same fixed label in every naming call, whatever
\* the configuration, and no request is sent to the naming service for it
C16_UnclusteredLabelFixed ==
  \A i \in 1..Len(last.ncalls) :
    LET c == last.ncalls[i] IN
    c.cid = -1 => (c.name = "Miscellaneous_Files" /\ c.reqs = 0)

\* 2^n for the retries there can be
Pow2(n) == CASE n = 0 -> 1 [] n = 1 -> 2 [] n = 2 -> 4 [] n = 3 -> 8 [] OTHER -> 16

\* C17: a naming call makes at most 3 requests; each rate-limit error is
\* followed by a sleep of 5, 10, 20 seconds and, while attempts are left, by
\* another request; any other failure ends the call with the request that met
\* it; a call no request of which yielded a valid name returns
\* Semantic_Cluster_<id>
C17_BoundedRetries ==
  \A i \in 1..Len(last.ncalls) :
    LET c == last.ncalls[i] IN
    /\ c.reqs <= 3
    /\ c.reqs = Len(c.replies)
    /\ \A k \in 1..(c.reqs - 1) : c.replies[k] = "RATE"
    /\ Len(c.waits) = Cardinality({k \in 1..c.reqs : c.replies[k] = "RATE"})
    /\ \A k \in 1..Len(c.waits) : c.waits[k] = 5 * Pow2(k - 1)
    /\ (c.reqs > 0 /\ c.reqs < 3) => c.replies[c.reqs] # "RATE"
    /\ (c.reqs > 0 /\ c.replies[c.reqs] \notin AiNames) => c.name = SemanticCluster(c.cid)
    /\ (c.reqs > 0 /\ c.replies[c.reqs] \in AiNames) => c.name = c.replies[c.reqs]

\* three rate-limit errors in a row: three requests, sleeps of 5, 10 and 20
\* seconds, then the fallback name
C17_Witness ==
  /\ last.kind = "generate_folder_name"
  /\ \E i \in 1..Len(last.ncalls) :
       LET c == last.ncalls[i] IN
       /\ c.reqs = 3
       /\ c.replies = <<"RATE", "RATE", "RATE">>
       /\ c.waits = <<5, 10, 20>>
       /\ c.name = SemanticCluster(c.cid)

\* the callbacks made before the notification the last step handled
Earlier == IF last.note.delivered THEN SubSeq(sent, 1, Len(sent) - 1) ELSE sent

\* C18: two callbacks for the same (kind, path) are at least one second
\* apart; a notification the handler passes on is delivered exactly when no
\* callback for the same (kind, path) was made less than a second before, so
\* a callback for another kind or path never suppresses it
C18_Debounce ==
  /\ \A i, j \in 1..Len(sent) :
       (i < j /\ sent[i].kind = sent[j].kind /\ sent[i].path = sent[j].path)
         => sent[j].at - sent[i].at >= 2
  /\ (last.kind = "notify" /\ last.note.fwd) =>
       (last.note.delivered <=>
          ~\E i \in 1..Len(Earlier) :
             /\ Earlier[i].kind = last.note.kind
             /\ Earlier[i].path = last.path
             /\ last.note.at - Earlier[i].at < 2)

\* a notification suppressed half a second after a callback for its pair,
\* with a callback for another kind of the same path made in between
C18_Witness ==
  /\ last.kind = "notify" /\ last.note.fwd /\ ~last.note.delivered
  /\ Len(sent) = 2
  /\ sent[1].kind = last.note.kind /\ sent[1].path = last.path
  /\ sent[2].kind # sent[1].kind /\ sent[2].path = sent[1].path
  /\ sent[2].at = sent[1].at

\* the names the watcher has to keep from the Orchestrator
Filtered(name) ==
  \/ name[1] = ""
  \/ name[2] \in {".tmp", ".crdownload"}
  \/ name = <<"sefs", ".db">>

\* C19: no callback, of any kind, is made for a hidden file, a temporary or
\* partial-download file or the store's own file
C19_NoCallbackForFiltered ==
  \A i \in 1..Len(sent) : ~Filtered(sent[i].path.name)

\* a step of the observer thread: it takes one OS notification
WatcherStep == pending # <<>> /\ pending' = Tail(pending)

\* a step of the Worker thread: the initial scan, or the handling of the
\* event at the head of the queue
WorkerStep ==
  \/ pc = "scanning" /\ pc' = "watching"
  \/ pc = "watching" /\ queue # <<>> /\ queue' = Tail(queue)

\* C20: a step of the watcher thread leaves the store, the disk and the
\* naming cache alone and at most appends the (kind, path) it was notified
\* of to the event queue; every step that writes the store, makes a folder or
\* fills the naming cache is a step of the Worker (scan or event handling)
C20_SingleWriter ==
  [][ /\ WatcherStep =>
           /\ UNCHANGED <<db, files, dirs, cache, clock>>
           /\ \/ queue' = queue
              \/ /\ queue' = Append(queue, Head(pending))
                 /\ seen' = seen \cup {<<Head(pending).kind, Head(pending).path>>}
      /\ (db' # db \/ dirs' # dirs \/ cache' # cache) => (WorkerStep /\ ~WatcherStep)
    ]_vars

\* the watcher has queued an event and holds another while the store
\* already has records written by the Worker
C20_Witness == db # <<>> /\ queue # <<>> /\ pending # <<>>

\* C21: the Worker takes the events off the queue one at a time and in the
\* order in which the watcher put them there: a step that shortens the
\* queue removes exactly its oldest event and is the handling of that event
\* (the step of the Worker that `last' describes, pass included), the rest
\* of the queue keeps its order, and the queue grows only at its tail; so
\* no event is handled twice and none overtakes another
C21_FifoOnce ==
  [][/\ Len(queue') < Len(queue) =>
          /\ pc = "watching"
          /\ queue' = Tail(queue)
          /\ last'.kind = Head(queue).kind
          /\ last'.path = Head(queue).path
     /\ Len(queue') > Len(queue) =>
          /\ Len(queue') = Len(queue) + 1
          /\ SubSeq(queue', 1, Len(queue)) = queue
          /\ last'.kind \in {"none", "notify"}
     /\ Len(queue') = Len(queue) => queue' = queue]_vars

\* an event has been handled while a different one waited behind it
C21_Witness ==
  /\ last.kind \in {"created", "modified", "deleted", "moved"}
  /\ queue # <<>>
  /\ <<Head(queue).kind, Head(queue).path>> # <<last.kind, last.path>>

C23_ErrorsContained ==
  last.stop = "raised" => pc = "watching"

\* C24: for one or two vectors the Grouping Engine returns as many group
\* ids as vectors and puts every vector in a group of its own: the two ids
\* it returns for two vectors differ
C24_SmallGroupsDistinct ==
  \A k \in 1..Len(last.gcalls) :
    LET g == last.gcalls[k] IN
    g.n \in {1, 2} =>
      /\ Len(g.labels) = g.n
      /\ \A i, j \in 1..g.n : i # j => g.labels[i] # g.labels[j]

\* C25: only files whose extension is in Config.EXTENSIONS are ingested:
\* every record of the store is for such a file, and so is every file a
\* pass groups and hands to move_file
C25_OnlySupportedIngested ==
  /\ \A i \in 1..Len(db) : ExtOf(db[i].path) \in ConfigExtensions
  /\ \A k \in 1..Len(last.calls) : ExtOf(last.calls[k].src) \in ConfigExtensions

\* the hash a get through path string s yields, "" when there is no record
HashAt(d, s) == IF DbGetFile(d, s) = <<>> THEN "" ELSE DbGetFile(d, s)[1].hash

\* the file a path string names
Denotes(s) ==
  CASE s \in {<<"root", "a.txt">>, <<"root", "", "a.txt">>, <<"root", ".", "a.txt">>,
              <<"root", "sub", "..", "a.txt">>} -> "root/a.txt"
    [] s \in {<<"root", "sub", "a.txt">>, <<"root", "sub", "a.txt", "">>} -> "root/sub/a.txt"
    [] OTHER -> "root/b.txt"

SameKey(s, t) == Denotes(s) = Denotes(t)

\* C26: whatever path strings the store is called with, it holds at most one
\* record per normalized path, and every string that normalizes to the
\* same path reaches the same record: after upsert(p) a get through any
\* such p' yields the record with the hash just given, after remove(p) or
\* clear_all it yields nothing, and any other call leaves what it yields as
\* it was (so get(p') returns the record last upserted under p)
C26_KeyedByNormalizedPath ==
  /\ [](\A i, j \in 1..Len(db) : Denotes(db[i].path) = Denotes(db[j].path) => i = j)
  /\ [][\A t \in PathStrings :
         IF last'.kind = "upsert" /\ SameKey(t, last'.arg.path)
           THEN HashAt(db', t) = last'.arg.val
         ELSE IF last'.kind = "remove" /\ SameKey(t, last'.arg.path)
           THEN HashAt(db', t) = ""
         ELSE IF last'.kind = "clear_all"
           THEN HashAt(db', t) = ""
         ELSE /\ HashAt(db', t) = HashAt(db, t)
              /\ last'.kind = "get" /\ t = last'.arg.path =>
                   /\ last'.got = DbGetFile(db, t)
                   /\ HashAt(db, t) # "" => Len(last'.got) = 1]_vars

\* a get through a path string that is not normalized returned the record
\* that was upserted through another string
C26_Witness ==
  /\ last.kind = "get"
  /\ last.got # <<>>
  /\ last.arg.path # last.got[1].path
  /\ Len(db) = 1

\* C27: every Reclustering Pass ends with exactly one update to the
\* presentation sink, which holds every record with the group id of this
\* pass, one coordinate per record, and the group id -> label map of the
\* pass
C27_SinkUpdatedEveryPass ==
  last.pass =>
    /\ Len(last.emits) = 1
    /\ LET u == last.emits[1] IN
       /\ Len(u.data) = Len(db)
       /\ {u.data[i].path : i \in 1..Len(u.data)} = {db[i].path : i \in 1..Len(db)}
       /\ Len(u.coords) = Len(u.data)
       /\ "labels" \in DOMAIN u

\* C28: when the outside world stops changing the root, the system comes
\* to rest: from some point on the queue is empty and no notification
\* waits, the events of the Worker's own moves included; and at rest the
\* Worker moves no file, fingerprints nothing and writes no record
C28_Quiescence ==
  /\ <>[]Quiescent
  /\ [][Quiescent => UNCHANGED <<db, dirs, cache, clock>>]_vars

\* the system is at rest after the Worker handled an event of one of its
\* own moves
C28_Witness ==
  /\ Quiescent
  /\ last.sys
  /\ last.kind \in {"created", "deleted", "moved"}
  /\ extOps = MaxExt

\* C29: what the system has organized is never its input: every path the
\* scan or an event hands to process_file lies directly in the root, and
\* an event for a path in a subfolder, whatever its kind, starts no
\* processing and no pass and changes neither store nor disk
C29_SubfolderNeverInput ==
  /\ \A q \in last.procs : q.dir = Root
  /\ (/\ last.kind \in {"created", "modified", "moved", "deleted"}
      /\ last.path.dir # Root)
     => /\ last.procs = {}
        /\ last.pf = "none"
        /\ ~last.pass
        /\ last.calls = <<>>
        /\ ~last.dbChanged
        /\ ~last.diskChanged

\* the user deleted an organized file that has a record: the event was
\* dropped
C29_Witness ==
  /\ last.kind = "deleted"
  /\ last.path.dir # Root
  /\ ~last.sys
  /\ last.tracked
  /\ last.stop = "subfolder"

\* C30: the Worker goes from idle to scanning to watching to stopped and
\* never otherwise; until the scan, with its pruning and first pass, has
\* completed, nothing is taken off the queue and what the watcher delivers
\* meanwhile is kept at its tail; and the events queued during the scan
\* are handled afterwards: unless stop() intervenes the queue is drained
C30_StartupOrder ==
  /\ [][pc' # pc => <<pc, pc'>> \in {<<"idle", "scanning">>, <<"scanning", "watching">>,
                                     <<"watching", "stopped">>}]_vars
  /\ [][(pc = "idle" \/ pc = "scanning") =>
         /\ pc' = "scanning" => UNCHANGED <<db, dirs, cache>>
         /\ Len(queue') >= Len(queue)
         /\ SubSeq(queue', 1, Len(queue)) = queue]_vars
  /\ [](pc = "idle" => queue = <<>> /\ db = <<>>)
  /\ ((pc = "scanning" /\ queue # <<>>) ~> (queue = <<>> \/ ~running))

\* an event for a file that was created while the Worker was scanning is
\* handled in the loop: the scan had already recorded and moved the file
C30_Witness ==
  /\ pc = "watching"
  /\ last.kind = "created"
  /\ ~last.sys
  /\ ~last.existed
  /\ \E i \in 1..Len(db) : db[i].path.name = last.path.name /\ db[i].path.dir # Root

\* C31: after a Processing Step that obtained no fingerprint for a path,
\* the store holds no fingerprint-bearing record for that path and the pass
\* of the step neither groups nor moves the file, also when the path had a
\* record from an earlier step on older content
C31_NoFingerprintNoRecord ==
  last.pf = "notext" =>
    /\ \A i \in 1..Len(db) : db[i].path = last.path => ~HasEmbedding(db[i])
    /\ \A k \in 1..Len(last.calls) : last.calls[k].src # last.path

\* -------------------------------------- recluster_and_update on its own
\* one reclustering pass over a store and a disk that earlier passes have
\* left: files of one type, some of them placed, their rows in any order
MaxRows == 3         \* files on the disk
MaxPasses == 1       \* passes in a row

\* the folder the files of group -1 were placed in
NoiseLabel(en) == IF en THEN "Miscellaneous_Files" ELSE SemanticCluster(-1)

PassPaths(en) ==
  {Path(Root, <<"a", ".txt">>),
   Path(<<SemanticCluster(0), "Text_Files">>, <<"a", ".txt">>),
   Path(<<NoiseLabel(en), "Text_Files">>, <<"a", ".txt">>),
   Path(Root, <<"b", ".TXT">>)}

\* the rows process_file and earlier passes wrote for the files of order o,
\* one after the other
RECURSIVE TrackAll(_, _, _)
TrackAll(d, o, fs) ==
  IF o = <<>> THEN d
  ELSE LET q == Head(o)
           text == ExtractText(q, fs[q])
           d1 == UpsertFile(d, q, ComputeFileHash(fs[q]), GenerateEmbedding(text),
                            0, ContentSample(text))
       IN TrackAll(IF q.dir = Root THEN d1
                   ELSE UpdateCluster(d1, q, IF q.dir[1] = SemanticCluster(0) THEN 0 ELSE -1),
                   Tail(o), fs)

PassInit ==
  /\ enabled \in BOOLEAN
  /\ service \in IF enabled THEN Replies ELSE {"FAIL"}
  /\ \E S \in SUBSET PassPaths(enabled) :
       /\ Cardinality(S) <= MaxRows
       /\ files = [q \in S |-> IF q.dir = Root THEN "t2" ELSE "t1"]
       /\ dirs = {q.dir : q \in S} \ {Root}
       /\ \E T \in SUBSET S : \E o \in Orders(T) : db = TrackAll(<<>>, o, files)
  /\ locked \in SUBSET Lockable
  /\ held = {}
  /\ platform = "pair"
  /\ pending = <<>> /\ seen = {} /\ queue = <<>> /\ cache = <<>>
  /\ pc = "watching" /\ clock = 1 /\ extOps = 0
  /\ wnow = 0 /\ stamps = <<>> /\ sent = <<>>
  /\ last = NoLast
  /\ Plain(Names)

\* the labellings UMAP + HDBSCAN can yield for the vectors of rows d: a
\* function of the vector (equal vectors get one label), no group of a
\* single vector (min_cluster_size is 2 below ten vectors), the ids counted
\* from 0
Groupings(d) ==
  LET embs == {d[i].emb : i \in 1..Len(d)}
      size(g, c) == Cardinality({i \in 1..Len(d) : g[d[i].emb] = c})
  IN {g \in [embs -> ClusterIds] :
        /\ \A c \in {0, 1} : size(g, c) # 1
        /\ size(g, 1) > 0 => size(g, 0) > 0}

\* the inputs of a pass on store d under the labelling g
PassEnv(d, g) ==
  [pick |-> [i \in 1..Len(d) |-> g[d[i].emb]],
   orc  |-> [c \in ClusterIds |-> service],
   fail |-> locked,
   stuck |-> held,
   now  |-> clock,
   plat |-> platform,
   en   |-> enabled]

\* the group ids of store d by path
GroupOf(d) == {<<d[i].path, d[i].cluster>> : i \in 1..Len(d)}

\* recluster_and_update called once; the step also records what the same
\* call made right after it would do (again), the disk, the labelling and
\* the naming service being the same
CallRecluster ==
  /\ extOps < MaxPasses
  /\ \E g \in Groupings(db) :
       \E r1 \in {ReclusterAndUpdate(db, files, dirs, cache, PassEnv(db, g))} :
         \E g2 \in {[e \in {r1.db[i].emb : i \in 1..Len(r1.db)} |-> g[e]]} :
           \E r2 \in {ReclusterAndUpdate(r1.db, r1.files, r1.dirs, r1.cache,
                                         PassEnv(r1.db, g2))} :
             Commit(r1, [NoLast EXCEPT
                           !.kind = "pass", !.pass = TRUE,
                           !.again = [moved |-> r2.files # r1.files,
                                      changed |-> GroupOf(r2.db) # GroupOf(r1.db),
                                      reqs |-> r2.reqs]])
  /\ extOps' = extOps + 1
  /\ UNCHANGED <<seen, queue, pc, platform, enabled, locked, service, held, timed,
                 life, setup, halt>>

PassNext == CallRecluster

PassSpec == PassInit /\ [][PassNext]_vars

\* the rows of the store for path q
RowsAt(q) == {i \in 1..Len(db) : db[i].path = q}

\* move k of the last pass left its record behind: none at the path the
\* file left, one at the path it went to, with the hash, fingerprint and
\* sample of the snapshot row and the group id of this pass
Transferred(k) ==
  LET c == last.calls[k] IN
  /\ RowsAt(c.src) = {}
  /\ Cardinality(RowsAt(c.ret)) = 1
  /\ \A i \in RowsAt(c.ret) :
       /\ db[i].hash = c.before.hash
       /\ db[i].emb = c.before.emb
       /\ db[i].sample = c.before.sample
       /\ db[i].cluster = c.cid

\* C32: after a pass, every file the pass relocated has no record at its old
\* path and exactly one record at its new path, carrying the hash,
\* fingerprint and sample of its old record and the group id of this pass
C32_RecordFollowsMove ==
  last.pass => \A k \in Moves : Transferred(k)

\* every call of move_file of the last pass returned a path
NoMoveFailed == \A k \in 1..Len(last.calls) : last.calls[k].ok

\* row i of the store is where the last pass wanted it: its file exists at
\* root/<label of its group>/<type folder>/<file name>, and its group id is
\* the one this pass gave the row that ended at this path
Placed(i) ==
  /\ db[i].path \in DOMAIN files
  /\ \E k \in 1..Len(last.ncalls) :
       /\ last.ncalls[k].cid = db[i].cluster
       /\ db[i].path.dir = <<last.ncalls[k].name, TypeFolderName(ExtOf(db[i].path))>>
  /\ \E k \in 1..Len(last.calls) :
       /\ last.calls[k].ret = db[i].path
       /\ last.calls[k].cid = db[i].cluster

C34_SecondPassIdle ==
  last.pass => (~last.again.moved /\ ~last.again.changed /\ last.again.reqs = 0)

\* grouping call k of the last step got the rows of one type, all of them
OneType(k) ==
  LET c == last.gcalls[k] IN
  /\ \A i \in 1..Len(c.paths) : ExtOf(c.paths[i]) = c.ext
  /\ c.paths = [i \in 1..c.n |->
                  SelectSeq(last.snap,
                            LAMBDA r : HasEmbedding(r) /\ Lower(r.path.name[2]) = c.ext)[i].path]
  /\ c.n = Cardinality({i \in 1..Len(last.snap) :
                          HasEmbedding(last.snap[i]) /\ Lower(last.snap[i].path.name[2]) = c.ext})

\* the naming calls made for grouping call k: one per id among its labels
NamedApart(k) ==
  LET c == last.gcalls[k]
      mine == {j \in 1..Len(last.ncalls) : c.from < j /\ j <= c.from + Cardinality(c.named)}
  IN /\ c.named = {c.labels[i] : i \in 1..c.n}
     /\ {last.ncalls[j].cid : j \in mine} = c.named
     /\ Cardinality(mine) = Cardinality(c.named)
     /\ \A j \in mine :
          \A x \in 1..Len(last.ncalls[j].samples) :
            \E i \in 1..Len(last.snap) :
              /\ last.snap[i].sample = last.ncalls[j].samples[x]
              /\ Lower(last.snap[i].path.name[2]) = c.ext

\* C35: a pass calls the Grouping Engine once per lower-cased extension of
\* the fingerprint-bearing records, with exactly the records of that
\* extension, never with records of two extensions, and names the groups of
\* each extension in calls of their own
C35_PerTypeGrouping ==
  last.pass =>
    /\ \A k \in 1..Len(last.gcalls) : OneType(k) /\ NamedApart(k)
    /\ \A k, m \in 1..Len(last.gcalls) : last.gcalls[k].ext = last.gcalls[m].ext => k = m
    /\ {last.gcalls[k].ext : k \in 1..Len(last.gcalls)}
         = {Lower(last.snap[i].path.name[2]) : i \in {j \in 1..Len(last.snap) : HasEmbedding(last.snap[j])}}

C35_Witness ==
  /\ last.pass
  /\ Len(last.gcalls) = 2
  /\ last.gcalls[1].ext # last.gcalls[2].ext
  /\ \E i, j \in 1..Len(last.snap) :
       /\ last.snap[i].path.name[2] # last.snap[j].path.name[2]
       /\ HasEmbedding(last.snap[i]) /\ HasEmbedding(last.snap[j])

\* a naming call found its samples in the cache and answered from it
ServedFromCache(c) == c.name = cache[ValidOf(c)] /\ c.reqs = 0

\* C36 as stated: a naming call whose samples already have a name in the
\* cache returns that name without a request
C36_CacheAlwaysServes ==
  \A k \in 1..Len(last.ncalls) :
    last.ncalls[k].cached => ServedFromCache(last.ncalls[k])

\* C36 (amended): the cache holds names of the service only, never a
\* fallback name, and keeps every entry; a call for an id other than -1
\* whose samples have an entry returns it without a request; an enabled call
\* for an id other than -1 with valid samples and no entry sends a request
C36_CacheServesGroups ==
  /\ [](/\ \A v \in DOMAIN cache : cache[v] \in AiNames
        /\ \A k \in 1..Len(last.ncalls) :
             LET c == last.ncalls[k] IN
             /\ (c.cached /\ c.cid # -1) => ServedFromCache(c)
             /\ (~c.cached /\ c.en /\ c.cid # -1 /\ ValidOf(c) # <<>>) => c.reqs >= 1
             /\ (~c.cached /\ c.name \notin AiNames) => ValidOf(c) \notin DOMAIN cache)
  /\ [][\A v \in DOMAIN cache : v \in DOMAIN cache' /\ cache'[v] = cache[v]]_vars

C36_Witness ==
  /\ Len(last.ncalls) = 1
  /\ last.ncalls[1].cached
  /\ last.ncalls[1].cid = 0
  /\ last.ncalls[1].name \in AiNames
  /\ last.ncalls[1].reqs = 0

\* the hash and the fingerprint of row i are those of the file at its path
BelongsToFile(i) ==
  LET c == files[db[i].path] IN
  /\ db[i].hash = ComputeFileHash(c)
  /\ HasEmbedding(db[i]) => db[i].emb = GenerateEmbedding(ExtractText(db[i].path, c))

\* C37: after a pass that started with every record describing the file at
\* its path, every record whose path exists on disk holds the hash and the
\* fingerprint of the file at that path, also when a move of the pass
\* replaced a tracked file, whatever the order of the rows
C37_HashBelongsToFile ==
  last.pass => \A i \in 1..Len(db) : db[i].path \in DOMAIN files => BelongsToFile(i)

\* ------------------------------------- stop() against run(), statement
\* by statement, and SEFSService replacing the Worker
\* Worker.stop, its second statement: monitor.stop(), that is
\* observer.stop() and observer.join().  join on a thread that was never
\* started raises RuntimeError, which ends stop()
StopMonitor ==
  /\ stopping = "flagged"
  /\ IF observer = "new"
     THEN observer' = "spent" /\ stopping' = "raised"
     ELSE observer' = "stopped" /\ stopping' = "waiting"
  /\ last' = NoLast
  /\ UNCHANGED <<files, dirs, pending, seen, queue, db, cache, pc, clock, extOps,
                 platform, enabled, locked, service, held, timed, life, setup>>

\* Worker.stop, its third statement: self.wait() returns once run has ended
StopWait ==
  /\ stopping = "waiting"
  /\ pc \in {"stopped", "crashed"}
  /\ stopping' = "returned"
  /\ last' = NoLast
  /\ UNCHANGED <<files, dirs, pending, seen, queue, db, cache, pc, clock, extOps,
                 platform, enabled, locked, service, held, timed, life, setup, observer>>

\* SEFSService.start_monitoring after worker.stop() has returned: a new
\* Worker (new queue, watcher and naming cache, the store cleared) is
\* constructed and started
Replace ==
  /\ stopping = "returned"
  /\ pc' = "idle"
  /\ running' = TRUE /\ passed' = FALSE /\ late' = 0
  /\ observer' = "new" /\ stopping' = "none"
  /\ queue' = <<>> /\ pending' = <<>> /\ seen' = {}
  /\ db' = <<>> /\ cache' = <<>>
  /\ last' = [NoLast EXCEPT !.kind = "replace"]
  /\ UNCHANGED <<files, dirs, clock, extOps, platform, enabled, locked, service,
                 held, timed, setup>>

RaceNames == {<<"a", ".txt">>}

RaceInit ==
  /\ Boot(RaceNames)
  /\ Plain(RaceNames)
  /\ platform = "pair"
  /\ enabled = FALSE
  /\ locked = {}

RaceNext ==
  \/ Start
  \/ Scan
  \/ HandleEvent
  \/ Deliver
  \/ ExtCreate
  \/ ExtEdit
  \/ ExtDelete
  \/ Stop
  \/ StopMonitor
  \/ StopWait
  \/ Exit
  \/ Replace

RaceSpec == RaceInit /\ [][RaceNext]_vars

\* C38: however stop() and run() interleave, stop() raises no error, and
\* once it has returned the watcher is not running, the Worker loop has
\* ended and nothing is enqueued or handled; a Worker is replaced only
\* after its stop() has returned
C38_StopClean ==
  /\ stopping # "raised"
  /\ stopping = "returned" =>
       /\ observer = "stopped"
       /\ pc \in {"stopped", "crashed"}
       /\ ~running
       /\ last.kind = "none"
  /\ last.kind = "replace" => (pc = "idle" /\ observer = "new" /\ queue = <<>>)
====
